---- MODULE Spec2Model ----
(***************************************************************************)
(* Game Accessibility Submission Form (src/main.py).                       *)
(*                                                                         *)
(* Two specifications over one set of variables:                           *)
(*   SpecScore  calculate_score applied to selection maps drawn from a     *)
(*              bounded family (uniform maps, then edited entry by entry); *)
(*   Spec       the runs of main() in one browser session against the      *)
(*              store: connect, render the form, handle_submit,            *)
(*              insert_data_supabase statement by statement, commit,       *)
(*              rerun, close.                                              *)
(*                                                                         *)
(* Scores are exact rationals.  A score returned by the program (rounded   *)
(* to 2 decimals) is an integer number of hundredths ("cents"); an         *)
(* unrounded weighted score is an integer number of 1/Den points.  The     *)
(* program computes in binary floating point; every exact value is at      *)
(* least 1/(2*Den) hundredths away from a rounding tie (see NoTie below),  *)
(* ten orders of magnitude more than the accumulated float error, so the   *)
(* rounded results of the exact and of the float computation coincide.     *)
(***************************************************************************)
EXTENDS Integers, Sequences, FiniteSets, TLC

\* ------------------------------------------------------------------ bounds
MaxEdits == 1

MaxSubmissions == 2

\* ---------------------------------------------------------------- taxonomy
CATEGORIES ==
  << [name |-> "Visual Accessibility",
      options |-> << "Subtitles & Closed Captions", "Colorblind Modes",
                     "UI Customization", "Brightness & Contrast Adjustment",
                     "Motion Blur Reduction", "Field of View (FOV) Adjustment",
                     "Screen Shake Reduction" >>],
     [name |-> "Audio Accessibility",
      options |-> << "Volume Controls", "Visual Audio Cues", "Mono Audio" >>],
     [name |-> "Motor Accessibility",
      options |-> << "Controller Remapping", "Sensitivity Adjustment",
                     "Button Hold/Toggle Options", "Aim Assist",
                     "Motor Difficulty Settings", "Input Lag Reduction" >>],
     [name |-> "Cognitive Accessibility",
      options |-> << "Cognitive Difficulty Settings", "Clear UI Design",
                     "Tutorials & Guidance", "Objective Markers & Navigation",
                     "Narrative Clarity", "Reduced Time Limits" >>],
     [name |-> "General Accessibility Features",
      options |-> << "Accessibility Menu", "Presets", "Customization Saving",
                     "Accessibility Information" >>],
     [name |-> "Localization",
      options |-> << "Text Language Options", "Audio Language Options",
                     "Subtitle Language Options", "UI Language Options" >>] >>

NUM_CATEGORIES == Len(CATEGORIES)

CategoryNames == { CATEGORIES[i].name : i \in 1..NUM_CATEGORIES }

CategoryOf(c) == CHOOSE i \in 1..NUM_CATEGORIES : CATEGORIES[i].name = c

OptionsOf(i) == { CATEGORIES[i].options[k] : k \in 1..Len(CATEGORIES[i].options) }

Options == UNION { OptionsOf(i) : i \in 1..NUM_CATEGORIES }

\* The four entries of every selectbox, in menu order.
Levels == << "None", "Basic", "Customizable", "Extensive" >>

LevelSet == { Levels[i] : i \in 1..Len(Levels) }

\* ----------------------------------------------------------- exact numbers
PoolPoints == 20

PointsPerFeature == 3

Gcd(a, b) ==
  LET RECURSIVE G(_, _)
      G(x, y) == IF y = 0 THEN x ELSE G(y, x % y)
  IN G(a, b)

Lcm(a, b) == (a * b) \div Gcd(a, b)

LcmOfCounts ==
  LET RECURSIVE L(_)
      L(i) == IF i = 0 THEN 1 ELSE Lcm(L(i - 1), Len(CATEGORIES[i].options))
  IN L(NUM_CATEGORIES)

\* Unrounded scores are counted in units of 1/Den points.
Den == PointsPerFeature * NUM_CATEGORIES * LcmOfCounts

\* EQUAL_WEIGHT = 20 / NUM_CATEGORIES, in units of 1/Den.
EQUAL_WEIGHT == (PoolPoints * Den) \div NUM_CATEGORIES

NEW_WEIGHTS == [ c \in CategoryNames |-> EQUAL_WEIGHT ]

\* Variant: the value is cut to 2 decimals instead of rounded.
Round2Truncated(num, den) == (100 * num) \div den

\* round(num/den, 2) in hundredths: nearest, ties to even.
Round2(num, den) ==
  LET q == (100 * num) \div den
      r == (100 * num) % den
  IN IF 2 * r < den THEN q
     ELSE IF 2 * r > den THEN q + 1
     ELSE IF q % 2 = 0 THEN q ELSE q + 1

\* ----------------------------------------------------------- calculate_score
\* The default of selections.get(option, False): the value False, which equals
\* no level string (TLC compares strings with strings only, hence a string).
Absent == "<False>"

\* selections.get(option, False)
Get(sel, option) == IF option \in DOMAIN sel THEN sel[option] ELSE Absent

\* Variant: the branches for "Customizable" and "Extensive" are exchanged.
PointsOfSwapped(level) ==
  IF level = "Basic" THEN 1
  ELSE IF level = "Customizable" THEN 3
  ELSE IF level = "Extensive" THEN 2
  ELSE 0

\* The if / elif chain of the inner loop: what one option adds.
PointsOf(level) ==
  IF level = "Basic" THEN 1
  ELSE IF level = "Customizable" THEN 2
  ELSE IF level = "Extensive" THEN 3
  ELSE 0

\* Variant: the inner loop runs over the entries of the map (an entry under a
\* name no category declares is counted in every category) instead of over
\* the options the category declares.
CategoryScoreAllKeys(sel, i) ==
  LET opts == CATEGORIES[i].options
      RECURSIVE Acc(_)
      Acc(k) == IF k = 0 THEN 0 ELSE Acc(k - 1) + PointsOf(Get(sel, opts[k]))
      RECURSIVE Extra(_)
      Extra(S) == IF S = {} THEN 0
                  ELSE LET x == CHOOSE y \in S : TRUE
                       IN PointsOf(sel[x]) + Extra(S \ { x })
  IN Acc(Len(opts)) + Extra(DOMAIN sel \ Options)

\* category_score after the inner loop over the options of category i.
CategoryScore(sel, i) ==
  LET opts == CATEGORIES[i].options
      RECURSIVE Acc(_)
      Acc(k) == IF k = 0 THEN 0 ELSE Acc(k - 1) + PointsOf(Get(sel, opts[k]))
  IN Acc(Len(opts))

\* Variant: every category is normalised by the option count of the first.
WeightedScoreFixedCount(sel, i) ==
  (NEW_WEIGHTS[CATEGORIES[i].name] * CategoryScore(sel, i))
    \div (PointsPerFeature * Len(CATEGORIES[1].options))

\* weighted_score, in units of 1/Den.
WeightedScore(sel, i) ==
  LET n == Len(CATEGORIES[i].options)
  IN IF n > 0
       THEN (NEW_WEIGHTS[CATEGORIES[i].name] * CategoryScore(sel, i))
              \div (PointsPerFeature * n)
       ELSE 0

\* The pair returned: total in hundredths, category_scores in hundredths.
calculate_score(sel) ==
  LET RECURSIVE Total(_)
      Total(i) == IF i = 0 THEN 0 ELSE Total(i - 1) + WeightedScore(sel, i)
  IN [ total |-> Round2(Total(NUM_CATEGORIES), Den),
       category_scores |->
         [ c \in CategoryNames |-> Round2(WeightedScore(sel, CategoryOf(c)), Den) ] ]

\* ------------------------------------------------------------------- store
\* Rows of the lookup tables the schema is deployed with.
FeatureCatalog ==
  LET RECURSIVE Rows(_, _)
      Rows(i, base) ==
        IF i > NUM_CATEGORIES THEN {}
        ELSE { [id |-> base + k, name |-> CATEGORIES[i].options[k]] :
                 k \in 1..Len(CATEGORIES[i].options) }
             \cup Rows(i + 1, base + Len(CATEGORIES[i].options))
  IN Rows(1, 0)

LanguageCatalog == { [id |-> 1, name |-> "English"], [id |-> 2, name |-> ""] }

EmptyTables ==
  [ games |-> {}, submissions |-> {}, submission_features |-> {},
    game_languages |-> {} ]

TableNames == DOMAIN EmptyTables

\* cursor.execute("INSERT INTO <table> ..."): the row joins the open transaction.
InsertRow(t, table, row) == [ t EXCEPT ![table] = @ \cup { row } ]

\* conn.commit(): the rows of the transaction become part of the store.
Commit(d, t) == [ x \in TableNames |-> d[x] \cup t[x] ]

\* Variant: closing the connection commits what the transaction wrote.
CloseCommits(d, t) == Commit(d, t)

\* conn.close() with a transaction open: the store is as before it.
CloseConnection(d, t) == d

\* cursor.execute("SELECT id FROM <table> WHERE name = %s"): the ids that match.
LookupIds(table, name) == { r.id : r \in { x \in table : x.name = name } }

\* Variant: a game of that name already stored or written is reused.
ReusedGameId(d, t, next, name) ==
  LET same == { r \in d.games \cup t.games : r.name = name }
  IN IF same = {} THEN next ELSE (CHOOSE r \in same : TRUE).id

\* RETURNING id of INSERT INTO games: always the sequence's next value.
NewGameId(d, t, next, name) == next

\* ----------------------------------------------------------- form and loops
\* Keys of the selections dict in insertion order (the order main() fills it).
OptionSeq ==
  LET RECURSIVE Cat(_)
      Cat(i) == IF i = 0 THEN << >> ELSE Cat(i - 1) \o CATEGORIES[i].options
  IN Cat(NUM_CATEGORIES)

\* Variant: the test of the level is missing.
FeatureRowAlways(level) == TRUE

\* if level != "None"
FeatureRowNeeded(level) == level # "None"

\* if lang_name
LanguageRowNeeded(lang_name) == lang_name # ""

\* Variant: the test of the name is missing.
NameNeverMissing(name) == FALSE

\* if not game_name
NameMissing(name) == name = ""

\* Variant: the value returned by insert_data_supabase is not looked at.
SubmitIgnoresResult(r) == TRUE

\* if insert_data_supabase(...)
SubmitSucceeded(r) == r = "True"

\* languages_list in the except branch of the catalog read.
LanguagesOnError == << >>

\* Variant: the except branch of the catalog read ends the run.
AfterCatalogErrorStop == "halted"

\* Where main() goes on after the except branch of the catalog read: the
\* multiselect and the submit button.
AfterCatalogError == "button"

\* First item after position i of the feature loop that executes statements
\* (0: the loop is over).
NextFeature(sel, i) ==
  LET later == { k \in (i + 1)..Len(OptionSeq) :
                   /\ OptionSeq[k] \in DOMAIN sel
                   /\ FeatureRowNeeded(sel[OptionSeq[k]]) }
  IN IF later = {} THEN 0 ELSE CHOOSE k \in later : \A j \in later : k <= j

\* The same for the language loop.
NextLanguage(langs, i) ==
  LET later == { k \in (i + 1)..Len(langs) : LanguageRowNeeded(langs[k]) }
  IN IF later = {} THEN 0 ELSE CHOOSE k \in later : \A j \in later : k <= j

\* Values of the form's widgets explored: the game name typed, and two
\* selectboxes each left at "None" or set to one level (every other selectbox
\* stays at index 0).
GameNames == { "", "Awesome Adventure" }

RatedLevel ==
  [ o \in { "Subtitles & Closed Captions", "Mono Audio" } |->
      IF o = "Mono Audio" THEN "Extensive" ELSE "Basic" ]

FormSelections ==
  { [ o \in Options |-> IF o \in R THEN RatedLevel[o] ELSE "None" ] :
      R \in SUBSET DOMAIN RatedLevel }

\* st.multiselect over a list: the chosen entries, in the order chosen.
Multiselect(list) ==
  LET S == { list[i] : i \in 1..Len(list) }
  IN { q \in UNION { [ 1..n -> S ] : n \in 0..Cardinality(S) } :
         \A i, j \in DOMAIN q : i # j => q[i] # q[j] }

\* SELECT name FROM languages, rows in id order.
LanguageNames(table) ==
  LET RECURSIVE Names(_)
      Names(T) ==
        IF T = {} THEN << >>
        ELSE LET r == CHOOSE x \in T : \A y \in T : x.id <= y.id
             IN << r.name >> \o Names(T \ { r })
  IN Names(table)

NoScore == [ total |-> -1, category_scores |-> [ c \in CategoryNames |-> -1 ] ]

\* -------------------------------------------------------------------- state
VARIABLES
  selections,             \* the selections dict
  ret,                    \* what calculate_score returned
  edits,                  \* SpecScore: entries changed so far
  db,                     \* committed rows of the four tables
  txn,                    \* rows written by the open transaction
  aborted,                \* a statement failed on this connection
  seq,                    \* the id sequences of games and submissions
  accessibility_features, \* lookup table
  languages,              \* lookup table
  session,                \* st.session_state
  pc,                     \* position of the current run of main()
  conn,                   \* "unopened", "none" (connect failed), "open", "closed"
  errors,                 \* st.error messages of the current run
  stmts,                  \* statements executed on the run's connection
  game_name, languages_list, other_languages,
  game_id, submission_id, idx, result

scoreVars == << selections, ret, edits >>

storeVars == << db, txn, aborted, seq, accessibility_features, languages >>

runVars == << pc, conn, errors, stmts, game_name, languages_list,
              other_languages, game_id, submission_id, idx, result >>

vars == << scoreVars, storeVars, runVars, session >>

NoSession ==
  [ present |-> FALSE, form_submitted |-> FALSE, score |-> NoScore.total,
    category_scores |-> NoScore.category_scores ]

StoreInit ==
  /\ db = EmptyTables
  /\ txn = EmptyTables
  /\ aborted = FALSE
  /\ seq = [ games |-> 0, submissions |-> 0 ]
  /\ accessibility_features \in
       { FeatureCatalog, { r \in FeatureCatalog : r.name # "Mono Audio" } }
  /\ languages = LanguageCatalog

RunInit ==
  /\ pc = "start"
  /\ conn = "unopened"
  /\ errors = {}
  /\ stmts = 0
  /\ game_name = ""
  /\ languages_list = << >>
  /\ other_languages = << >>
  /\ game_id = 0
  /\ submission_id = 0
  /\ idx = 0
  /\ result = "unset"

\* ------------------------------------------------- SpecScore: the function
\* A name no category declares and a string that is none of the four levels.
UnknownOption == "Unknown Feature"

UnknownLevel == "Partial"

AnyOption == Options \cup { UnknownOption }

AnyLevel == LevelSet \cup { UnknownLevel }

\* Maps the edits start from: every option at one level, or the options of
\* one category at one level and all others at "None".
BaseSelections ==
  { [ o \in Options |-> l ] : l \in LevelSet }
  \cup { [ o \in Options |-> IF o \in OptionsOf(i) THEN l ELSE "None" ] :
           i \in 1..NUM_CATEGORIES, l \in LevelSet }

ScoreInit ==
  /\ selections \in BaseSelections
  /\ ret = calculate_score(selections)
  /\ edits = 0
  /\ StoreInit /\ accessibility_features = FeatureCatalog
  /\ RunInit
  /\ session = NoSession

\* One entry of the map is set (a selectbox choice, or any caller's entry).
Rate(o, l) ==
  /\ edits < MaxEdits
  /\ Get(selections, o) # l
  /\ selections' = [ x \in DOMAIN selections \cup { o } |->
                       IF x = o THEN l ELSE selections[x] ]
  /\ ret' = calculate_score(selections')
  /\ edits' = edits + 1
  /\ UNCHANGED << storeVars, runVars, session >>

\* One entry is left out of the map.
Omit(o) ==
  /\ edits < MaxEdits
  /\ o \in DOMAIN selections
  /\ selections' = [ x \in DOMAIN selections \ { o } |-> selections[x] ]
  /\ ret' = calculate_score(selections')
  /\ edits' = edits + 1
  /\ UNCHANGED << storeVars, runVars, session >>

ScoreNext ==
  \/ \E o \in AnyOption, l \in AnyLevel : Rate(o, l)
  \/ \E o \in Options : Omit(o)

SpecScore == ScoreInit /\ [][ScoreNext]_vars

\* ------------------------------------------------------ Spec: runs of main()
Init ==
  /\ selections = [ o \in Options |-> "None" ]
  /\ ret = NoScore
  /\ edits = 0
  /\ StoreInit
  /\ RunInit
  /\ session = NoSession

\* init_supabase_client returns a connection; session_state gets its flag
\* (lines 200-208) and the run goes to the form or to the breakdown.
ConnectOk ==
  /\ pc = "start"
  /\ conn' = "open"
  /\ session' = IF session.present THEN session
                ELSE [ session EXCEPT !.present = TRUE, !.form_submitted = FALSE ]
  /\ pc' = IF session'.form_submitted THEN "breakdown" ELSE "form"
  /\ UNCHANGED << scoreVars, storeVars, errors, stmts, game_name,
                  languages_list, other_languages, game_id, submission_id,
                  idx, result >>

\* init_supabase_client returns None: error, return (lines 201-203).
ConnectFails ==
  /\ pc = "start"
  /\ conn' = "none"
  /\ errors' = errors \cup { "connect" }
  /\ pc' = "halted"
  /\ UNCHANGED << scoreVars, storeVars, session, stmts, game_name,
                  languages_list, other_languages, game_id, submission_id,
                  idx, result >>

\* The form (lines 209-246): the widgets return what the user entered, the
\* language catalog is read, the multiselect returns the languages chosen.
RenderForm(name, sel) ==
  /\ pc = "form"
  /\ game_name' = name
  /\ selections' = sel
  /\ \/ /\ ~aborted
        /\ languages_list' = LanguageNames(languages)
        /\ pc' = "button"
        /\ UNCHANGED << errors, aborted >>
     \/ /\ languages_list' = LanguagesOnError
        /\ errors' = errors \cup { "languages" }
        /\ aborted' = TRUE
        /\ pc' = AfterCatalogError
  /\ stmts' = stmts + 1
  /\ other_languages' \in Multiselect(languages_list')
  /\ UNCHANGED << ret, edits, db, txn, seq, accessibility_features, languages,
                  session, conn, game_id, submission_id, idx, result >>

\* st.button returns True (line 249): handle_submit is called.
ClickSubmit ==
  /\ pc = "button"
  /\ ~session.form_submitted
  /\ pc' = "handle_submit"
  /\ UNCHANGED << scoreVars, storeVars, session, conn, errors, stmts, game_name,
                  languages_list, other_languages, game_id, submission_id,
                  idx, result >>

\* st.button returns False: nothing more is rendered in this run.
NoClick ==
  /\ pc = "button"
  /\ pc' = "close"
  /\ UNCHANGED << scoreVars, storeVars, session, conn, errors, stmts, game_name,
                  languages_list, other_languages, game_id, submission_id,
                  idx, result >>

\* handle_submit, lines 147-149.
HandleSubmitRejected ==
  /\ pc = "handle_submit"
  /\ NameMissing(game_name)
  /\ errors' = errors \cup { "name" }
  /\ pc' = "close"
  /\ UNCHANGED << scoreVars, storeVars, session, conn, stmts, game_name,
                  languages_list, other_languages, game_id, submission_id,
                  idx, result >>

\* handle_submit, line 152, and the call of insert_data_supabase up to its
\* first statement.
HandleSubmitScore ==
  /\ pc = "handle_submit"
  /\ ~NameMissing(game_name)
  /\ seq.games < MaxSubmissions
  /\ ret' = calculate_score(selections)
  /\ pc' = "insert_game"
  /\ UNCHANGED << selections, edits, storeVars, session, conn, errors, stmts,
                  game_name, languages_list, other_languages, game_id,
                  submission_id, idx, result >>

\* Line 115-116.  The sequence advances whether or not the row is committed.
InsertGame ==
  /\ pc = "insert_game"
  /\ ~aborted
  /\ LET id == NewGameId(db, txn, seq.games + 1, game_name)
     IN /\ game_id' = id
        /\ txn' = InsertRow(txn, "games",
                            [ id |-> id, name |-> game_name, description |-> "" ])
  /\ seq' = [ seq EXCEPT !.games = @ + 1 ]
  /\ stmts' = stmts + 1
  /\ pc' = "insert_submission"
  /\ UNCHANGED << scoreVars, db, aborted, accessibility_features, languages,
                  session, conn, errors, game_name, languages_list,
                  other_languages, submission_id, idx, result >>

\* Line 119-120.
InsertSubmission ==
  /\ pc = "insert_submission"
  /\ ~aborted
  /\ submission_id' = seq.submissions + 1
  /\ seq' = [ seq EXCEPT !.submissions = @ + 1 ]
  /\ txn' = InsertRow(txn, "submissions",
                      [ id |-> submission_id', game_id |-> game_id,
                        score |-> ret.total, status |-> "pending" ])
  /\ stmts' = stmts + 1
  /\ idx' = 0
  /\ pc' = "features"
  /\ UNCHANGED << scoreVars, db, aborted, accessibility_features, languages,
                  session, conn, errors, game_name, languages_list,
                  other_languages, game_id, result >>

\* The except branch of insert_data_supabase: st.error, return False.
Raise ==
  /\ result' = "False"
  /\ errors' = errors \cup { "insert" }
  /\ pc' = "returned"

\* Lines 123-127: the loop runs to the next entry that is not "None"; its
\* feature id is looked up and its row inserted, or fetchone() returns None.
InsertFeature ==
  /\ pc = "features"
  /\ ~aborted
  /\ NextFeature(selections, idx) # 0
  /\ LET k == NextFeature(selections, idx)
         option == OptionSeq[k]
         ids == LookupIds(accessibility_features, option)
     IN IF ids = {}
          THEN /\ Raise
               /\ stmts' = stmts + 1
               /\ UNCHANGED << txn, idx >>
          ELSE /\ txn' = InsertRow(txn, "submission_features",
                           [ submission_id |-> submission_id,
                             accessibility_feature_id |-> CHOOSE i \in ids : TRUE,
                             implementation_level |-> selections[option] ])
               /\ stmts' = stmts + 2
               /\ idx' = k
               /\ UNCHANGED << pc, errors, result >>
  /\ UNCHANGED << scoreVars, db, aborted, seq, accessibility_features,
                  languages, session, conn, game_name, languages_list,
                  other_languages, game_id, submission_id >>

\* The feature loop is over.
FeaturesDone ==
  /\ pc = "features"
  /\ NextFeature(selections, idx) = 0
  /\ idx' = 0
  /\ pc' = "languages"
  /\ UNCHANGED << scoreVars, storeVars, session, conn, errors, stmts, game_name,
                  languages_list, other_languages, game_id, submission_id,
                  result >>

\* Lines 130-134, as for the features.
InsertLanguage ==
  /\ pc = "languages"
  /\ ~aborted
  /\ NextLanguage(other_languages, idx) # 0
  /\ LET k == NextLanguage(other_languages, idx)
         ids == LookupIds(languages, other_languages[k])
     IN IF ids = {}
          THEN /\ Raise
               /\ stmts' = stmts + 1
               /\ UNCHANGED << txn, idx >>
          ELSE /\ txn' = InsertRow(txn, "game_languages",
                           [ game_id |-> game_id,
                             language_id |-> CHOOSE i \in ids : TRUE ])
               /\ stmts' = stmts + 2
               /\ idx' = k
               /\ UNCHANGED << pc, errors, result >>
  /\ UNCHANGED << scoreVars, db, aborted, seq, accessibility_features,
                  languages, session, conn, game_name, languages_list,
                  other_languages, game_id, submission_id >>

\* The language loop is over.
LanguagesDone ==
  /\ pc = "languages"
  /\ NextLanguage(other_languages, idx) = 0
  /\ pc' = "commit"
  /\ UNCHANGED << scoreVars, storeVars, session, conn, errors, stmts, game_name,
                  languages_list, other_languages, game_id, submission_id,
                  idx, result >>

\* Lines 137-139.
CommitOk ==
  /\ pc = "commit"
  /\ ~aborted
  /\ db' = Commit(db, txn)
  /\ txn' = EmptyTables
  /\ result' = "True"
  /\ pc' = "returned"
  /\ UNCHANGED << scoreVars, aborted, seq, accessibility_features, languages,
                  session, conn, errors, stmts, game_name, languages_list,
                  other_languages, game_id, submission_id, idx >>

\* A statement or the commit raises (always, once one statement has failed on
\* the connection): the transaction stays open and uncommitted.
StatementFails ==
  /\ pc \in { "insert_game", "insert_submission", "features", "languages",
              "commit" }
  /\ pc = "features" => NextFeature(selections, idx) # 0
  /\ pc = "languages" => NextLanguage(other_languages, idx) # 0
  /\ Raise
  /\ aborted' = TRUE
  /\ stmts' = stmts + 1
  /\ UNCHANGED << scoreVars, db, txn, seq, accessibility_features, languages,
                  session, conn, game_name, languages_list, other_languages,
                  game_id, submission_id, idx >>

\* handle_submit, lines 155-160: success is recorded in the session and the
\* script reruns at once (the connection of this run is never closed).
HandleSubmitOk ==
  /\ pc = "returned"
  /\ SubmitSucceeded(result)
  /\ session' = [ session EXCEPT !.form_submitted = TRUE,
                                 !.score = ret.total,
                                 !.category_scores = ret.category_scores ]
  /\ pc' = "done"
  /\ UNCHANGED << scoreVars, storeVars, conn, errors, stmts, game_name,
                  languages_list, other_languages, game_id, submission_id,
                  idx, result >>

\* handle_submit, lines 161-162.
HandleSubmitFailed ==
  /\ pc = "returned"
  /\ ~SubmitSucceeded(result)
  /\ errors' = errors \cup { "submit" }
  /\ pc' = "close"
  /\ UNCHANGED << scoreVars, storeVars, session, conn, stmts, game_name,
                  languages_list, other_languages, game_id, submission_id,
                  idx, result >>

\* Lines 252-332: the breakdown is shown; "Submit Another Form" clears the
\* flag and reruns, otherwise the run goes on to its end.
SubmitAnother ==
  /\ pc = "breakdown"
  /\ session' = [ session EXCEPT !.form_submitted = FALSE ]
  /\ pc' = "done"
  /\ UNCHANGED << scoreVars, storeVars, conn, errors, stmts, game_name,
                  languages_list, other_languages, game_id, submission_id,
                  idx, result >>

ShowBreakdown ==
  /\ pc = "breakdown"
  /\ pc' = "close"
  /\ UNCHANGED << scoreVars, storeVars, session, conn, errors, stmts, game_name,
                  languages_list, other_languages, game_id, submission_id,
                  idx, result >>

\* Lines 334-335.
CloseRun ==
  /\ pc = "close"
  /\ conn' = "closed"
  /\ db' = CloseConnection(db, txn)
  /\ txn' = EmptyTables
  /\ pc' = "done"
  /\ UNCHANGED << scoreVars, aborted, seq, accessibility_features, languages,
                  session, errors, stmts, game_name, languages_list,
                  other_languages, game_id, submission_id, idx, result >>

\* The next run of the script in the same session: a new connection, new
\* locals; session_state is kept.
Rerun ==
  /\ pc \in { "done", "halted" }
  /\ pc' = "start"
  /\ conn' = "unopened"
  /\ errors' = {}
  /\ stmts' = 0
  /\ game_name' = ""
  /\ languages_list' = << >>
  /\ other_languages' = << >>
  /\ game_id' = 0
  /\ submission_id' = 0
  /\ idx' = 0
  /\ result' = "unset"
  /\ selections' = [ o \in Options |-> "None" ]
  /\ ret' = NoScore
  /\ txn' = EmptyTables
  /\ aborted' = FALSE
  /\ UNCHANGED << edits, db, seq, accessibility_features, languages, session >>

\* Another client of the database removes a row of the languages table.
ExternalDeleteLanguage(r) ==
  /\ r \in languages
  /\ languages' = languages \ { r }
  /\ UNCHANGED << scoreVars, db, txn, aborted, seq, accessibility_features,
                  session, runVars >>

Next ==
  \/ ConnectOk
  \/ ConnectFails
  \/ \E name \in GameNames, sel \in FormSelections : RenderForm(name, sel)
  \/ ClickSubmit
  \/ NoClick
  \/ HandleSubmitRejected
  \/ HandleSubmitScore
  \/ InsertGame
  \/ InsertSubmission
  \/ InsertFeature
  \/ FeaturesDone
  \/ InsertLanguage
  \/ LanguagesDone
  \/ CommitOk
  \/ StatementFails
  \/ HandleSubmitOk
  \/ HandleSubmitFailed
  \/ SubmitAnother
  \/ ShowBreakdown
  \/ CloseRun
  \/ Rerun
  \/ \E r \in LanguageCatalog : ExternalDeleteLanguage(r)

Spec == Init /\ [][Next]_vars

\* =================================================================== claims
Rank(level) == CHOOSE k \in 1..Len(Levels) : Levels[k] = level

\* Raw points of category i, counted level by level.
RawPoints(sel, i) ==
  LET at(l) == Cardinality({ o \in OptionsOf(i) \cap DOMAIN sel : sel[o] = l })
  IN at("Basic") + 2 * at("Customizable") + 3 * at("Extensive")

\* r hundredths is num/den rounded to the nearest hundredth.
Nearest(r, num, den) ==
  LET d == 100 * num - r * den
  IN 2 * (IF d < 0 THEN -d ELSE d) <= den

\* Sum over the categories of 20 * raw / (6 * 3 * count), over 6 * 3 * LcmOfCounts.
ExactTotal(sel) ==
  LET RECURSIVE S(_)
      S(i) == IF i = 0 THEN 0
              ELSE S(i - 1) + PoolPoints * RawPoints(sel, i)
                                * (LcmOfCounts \div Len(CATEGORIES[i].options))
  IN S(NUM_CATEGORIES)

\* No exact value is a rounding tie: 100 * x is never an odd multiple of 1/2.
NoTie ==
  /\ (2 * 100 * ExactTotal(selections)) % (2 * Den) # Den
  /\ \A i \in 1..NUM_CATEGORIES :
       LET den == NUM_CATEGORIES * PointsPerFeature * Len(CATEGORIES[i].options)
       IN (2 * 100 * PoolPoints * RawPoints(selections, i)) % (2 * den) # den

OnlySubtitlesBasic ==
  [ o \in Options |-> IF o = "Subtitles & Closed Captions" THEN "Basic" ELSE "None" ]

\* C3: every category score returned is 20/6 * rawSum / (3 * optionCount)
\* rounded to 2 decimals (None 0, Basic 1, Customizable 2, Extensive 3, a
\* missing option 0), the total is the rounding of the sum of the unrounded
\* category values, no value is a rounding tie, and with only "Subtitles &
\* Closed Captions" at Basic the Visual score and the total are 0.16 and every
\* other category is 0.
C3_ScoreFormula ==
  /\ NoTie
  /\ \A i \in 1..NUM_CATEGORIES :
       Nearest(ret.category_scores[CATEGORIES[i].name],
               PoolPoints * RawPoints(selections, i),
               NUM_CATEGORIES * PointsPerFeature * Len(CATEGORIES[i].options))
  /\ Nearest(ret.total, ExactTotal(selections),
             NUM_CATEGORIES * PointsPerFeature * LcmOfCounts)
  /\ selections = OnlySubtitlesBasic =>
       /\ ret.total = 16
       /\ \A c \in CategoryNames :
            ret.category_scores[c] = IF c = "Visual Accessibility" THEN 16 ELSE 0

C3_Witness ==
  /\ selections = OnlySubtitlesBasic
  /\ edits = 1
  /\ ret.total = 16

\* C4: with every option of every category at Extensive the total returned is
\* the whole pool, 20.00, and every category score is 3.33.
C4_FullPool ==
  (\A o \in Options : Get(selections, o) = "Extensive") =>
    /\ ret.total = 100 * PoolPoints
    /\ \A c \in CategoryNames : ret.category_scores[c] = 333

C4_Witness ==
  /\ \A o \in Options : Get(selections, o) = "Extensive"
  /\ ret.total = 2000

\* The step raises the level of exactly one declared option of the map.
RaisesOne ==
  /\ DOMAIN selections' = DOMAIN selections
  /\ \E o \in Options \cap DOMAIN selections :
       /\ selections[o] \in LevelSet /\ selections'[o] \in LevelSet
       /\ Rank(selections[o]) < Rank(selections'[o])
       /\ \A x \in DOMAIN selections \ { o } : selections'[x] = selections[x]

\* C5: when one option's level is raised along None < Basic < Customizable <
\* Extensive and nothing else changes, no category score and not the total
\* returned gets smaller.
C5_Monotone ==
  [][ RaisesOne =>
        /\ ret'.total >= ret.total
        /\ \A c \in CategoryNames :
             ret'.category_scores[c] >= ret.category_scores[c] ]_vars

\* A map one raise away from a base map, scored strictly higher than the base.
C5_Witness ==
  /\ edits = 1
  /\ \E b \in BaseSelections, o \in Options :
       /\ DOMAIN selections = DOMAIN b
       /\ \A x \in Options \ { o } : selections[x] = b[x]
       /\ selections[o] \in LevelSet
       /\ Rank(b[o]) < Rank(selections[o])
       /\ ret.total > calculate_score(b).total

\* C6: whatever the map holds (undeclared names, strings that are no level,
\* missing entries), every category score lies in [0, 20/6] and the total in
\* [0, 20].
C6_Bounded ==
  /\ 0 <= ret.total /\ ret.total <= 100 * PoolPoints
  /\ \A c \in CategoryNames :
       /\ 0 <= ret.category_scores[c]
       /\ NUM_CATEGORIES * ret.category_scores[c] <= 100 * PoolPoints

C6_Witness ==
  /\ UnknownOption \in DOMAIN selections
  /\ selections[UnknownOption] = "Extensive"
  /\ \A o \in Options : Get(selections, o) = "Extensive"
  /\ ret.total = 100 * PoolPoints

\* Rows of the store that carry the ids the current call obtained.
RowsOfCall(d) ==
  { r \in d.games : r.id = game_id }
  \cup { r \in d.submissions : r.id = submission_id \/ r.game_id = game_id }
  \cup { r \in d.submission_features : r.submission_id = submission_id }
  \cup { r \in d.game_languages : r.game_id = game_id }

\* C1: a call of insert_data_supabase in which a statement or a lookup failed
\* has returned False, and once it has returned False the committed store
\* holds no games, submissions, submission_features or game_languages row of
\* that call, up to and after the close of the connection.
C1_AllOrNothing ==
  /\ "insert" \in errors => result = "False"
  /\ result = "False" => RowsOfCall(db) = {}

\* A call that failed after both inserts and a feature row, the run over.
C1_Witness ==
  /\ result = "False"
  /\ game_id # 0 /\ submission_id # 0 /\ idx # 0
  /\ conn = "closed"
  /\ pc = "done"

\* C2: handle_submit called with an empty game name executes no statement,
\* writes no row, draws no id, computes no score and leaves session_state as
\* it is; it only reports the error.
C2_EmptyNameBlocked ==
  [][ (pc = "handle_submit" /\ game_name = "") =>
        /\ pc' \in { "handle_submit", "close" }
        /\ UNCHANGED << stmts, db, txn, seq, ret, session, result >>
        /\ ~session.form_submitted ]_vars

C2_Witness ==
  /\ "name" \in errors
  /\ game_name = ""
  /\ pc = "close"
  /\ ~session.form_submitted

FeatureIdOf == [ o \in Options |-> (CHOOSE r \in FeatureCatalog : r.name = o).id ]

\* The rows a successful call with the current arguments commits.
ExpectedRows ==
  [ games |-> { [ id |-> game_id, name |-> game_name, description |-> "" ] },
    submissions |->
      { [ id |-> submission_id, game_id |-> game_id, score |-> ret.total,
          status |-> "pending" ] },
    submission_features |->
      { [ submission_id |-> submission_id,
          accessibility_feature_id |-> FeatureIdOf[o],
          implementation_level |-> selections[o] ] :
        o \in { x \in DOMAIN selections : selections[x] # "None" } },
    game_languages |->
      { [ game_id |-> game_id, language_id |-> r.id ] :
        r \in { x \in LanguageCatalog :
                  /\ x.name # ""
                  /\ \E k \in DOMAIN other_languages : other_languages[k] = x.name } } ]

\* C7: the store changes only by the commit that ends a successful call, after
\* all its inserts, and the rows it adds are exactly one games row, one
\* submissions row for that game with the given score and status "pending",
\* one submission_features row with the chosen level per entry that is not
\* "None", and one game_languages row per non-empty language chosen.
C7_CommittedRows ==
  [][ db' # db =>
        /\ pc = "commit" /\ result' = "True"
        /\ game_id # 0 /\ submission_id # 0
        /\ \A t \in TableNames :
             /\ db'[t] = db[t] \cup ExpectedRows[t]
             /\ db[t] \cap ExpectedRows[t] = {} ]_vars

\* A committed call that chose "English" and the empty name and two features.
C7_Witness ==
  /\ pc = "returned" /\ result = "True"
  /\ Len(other_languages) = 2
  /\ Cardinality({ r \in db.game_languages : r.game_id = game_id }) = 1
  /\ Cardinality({ r \in db.submission_features :
                     r.submission_id = submission_id }) = 2
  /\ \A r \in db.submission_features : r.implementation_level # "None"

\* C8: every successful submission adds one games row and one submissions row
\* with ids no earlier row has and changes no earlier row, whatever rows (of
\* the same name) the store already holds.
C8_NotIdempotent ==
  [][ (pc = "commit" /\ result' = "True") =>
        /\ db.games \subseteq db'.games
        /\ db.submissions \subseteq db'.submissions
        /\ Cardinality(db'.games) = Cardinality(db.games) + 1
        /\ Cardinality(db'.submissions) = Cardinality(db.submissions) + 1
        /\ \A g \in db'.games \ db.games : \A h \in db.games : g.id # h.id
        /\ \A g \in db'.submissions \ db.submissions :
             \A h \in db.submissions : g.id # h.id /\ g.game_id # h.game_id ]_vars

FeaturesOf(d, sid) ==
  { << r.accessibility_feature_id, r.implementation_level >> :
      r \in { x \in d.submission_features : x.submission_id = sid } }

\* Two committed submissions of the same name, score, features and languages.
C8_Witness ==
  \E g \in db.games, h \in db.games, s \in db.submissions, u \in db.submissions :
    /\ g.id # h.id /\ g.name = h.name
    /\ s.game_id = g.id /\ u.game_id = h.id /\ s.id # u.id
    /\ s.score = u.score /\ s.score > 0
    /\ FeaturesOf(db, s.id) = FeaturesOf(db, u.id)
    /\ { r.language_id : r \in { x \in db.game_languages : x.game_id = g.id } }
         = { r.language_id : r \in { x \in db.game_languages : x.game_id = h.id } }

\* C9: a failed read of the language catalog leaves the run at the submit
\* button with an empty language list, the error shown and the connection
\* open; a failed connect ends the run with session_state untouched, no
\* statement executed and no submission made.
C9_LanguageErrorNotFatal ==
  [][ /\ ("languages" \notin errors /\ "languages" \in errors') =>
           /\ pc' = "button"
           /\ ~session'.form_submitted
           /\ languages_list' = << >>
           /\ other_languages' = << >>
           /\ conn' = "open"
      /\ conn' = "none" =>
           /\ pc' = "halted"
           /\ "connect" \in errors'
           /\ session' = session
           /\ stmts' = 0
           /\ result' = "unset"
           /\ db' = db ]_vars

\* After the failed read the button was offered and pressed.
C9_Witness ==
  /\ "languages" \in errors
  /\ languages_list = << >>
  /\ pc = "handle_submit"
  /\ game_name # ""

\* The last submission committed, and the selections its rows record.
LastSubmission(d) == CHOOSE s \in d.submissions : \A u \in d.submissions : u.id <= s.id

SelectionsOf(d, sid) ==
  LET rows == { r \in d.submission_features : r.submission_id = sid }
      ids == { r.accessibility_feature_id : r \in rows }
  IN [ o \in Options |->
         IF FeatureIdOf[o] \notin ids THEN "None"
         ELSE (CHOOSE r \in rows :
                 r.accessibility_feature_id = FeatureIdOf[o]).implementation_level ]

SubmissionPcs ==
  { "form", "button", "handle_submit", "insert_game", "insert_submission",
    "features", "languages", "commit", "returned" }

\* C10: form_submitted turns true only at the return of a call that
\* committed, and then score and category_scores are those of the selections
\* of the last committed submission; while it is true no submission is under
\* way; it turns false only by "Submit Another Form"; nothing else changes
\* score, category_scores or the flag once it is set.
C10_SessionFlag ==
  [][ /\ (~session.form_submitted /\ session'.form_submitted) =>
           (pc = "returned" /\ result = "True")
      /\ session'.form_submitted =>
           /\ pc' \notin SubmissionPcs
           /\ db'.submissions # {}
           /\ session'.score = LastSubmission(db').score
           /\ LET r == calculate_score(SelectionsOf(db', LastSubmission(db').id))
              IN /\ session'.score = r.total
                 /\ session'.category_scores = r.category_scores
      /\ (session.form_submitted /\ ~session'.form_submitted) =>
           pc = "breakdown"
      /\ (session.present /\ session'.form_submitted = session.form_submitted) =>
           session' = session ]_vars

C10_Witness ==
  /\ session.form_submitted
  /\ pc = "breakdown"
  /\ session.score = 127
====
